---- MODULE Spec2Model ----
(***************************************************************************)
(* PostgreSQL quorum-commit topology discovery                             *)
(* (storages::postgres::detail::QuorumCommitTopology::Impl).               *)
(*                                                                         *)
(* The model follows src/redis/include/storages/redis/impl/                *)
(* secdist_redis.hpp: the host states array, the two rcu variables, one    *)
(* discovery cycle (RunDiscovery) cut at its suspension points, the probe  *)
(* of one host (RunCheck) cut at each I/O it waits for, and the parser of  *)
(* synchronous_standby_names working on characters.                        *)
(***************************************************************************)
EXTENDS Integers, Sequences, FiniteSets, TLC

(***************************************************************************)
(* Bounds of the model.                                                    *)
(***************************************************************************)
\* number of DSNs given to the constructor (dsns_.size())
NumHosts == 2
\* round-trip times a probe may measure are 0..MaxRtt microseconds
MaxRtt == 1
\* cycles counted back from the current one when a snapshot's age is kept;
\* older snapshots count as MaxAge
MaxAge == 2
\* words of a synchronous_standby_names value given to the parser
MaxWords == 4

(***************************************************************************)
(* Program constants.                                                      *)
(***************************************************************************)
\* constexpr Rtt kUnknownRtt{-1};
kUnknownRtt == -1

Hosts == 0 .. (NumHosts - 1)
Rtts == 0 .. MaxRtt

\* ClusterHostType values used by the discovery
kNone == "None"
kMaster == "Master"
kSyncSlave == "SyncSlave"
kSlave == "Slave"
ClusterHostType == {kNone, kMaster, kSyncSlave, kSlave}

(***************************************************************************)
(* Strings are sequences of one-character strings.                         *)
(***************************************************************************)
UpperChars == <<"A", "B", "C", "F", "I", "N", "R", "S", "T", "Y">>
LowerChars == <<"a", "b", "c", "f", "i", "n", "r", "s", "t", "y">>

\* tolower() as used by utils::StrIcaseEqual
ToLower(c) ==
  IF \E k \in 1 .. Len(UpperChars) : UpperChars[k] = c
  THEN LowerChars[CHOOSE k \in 1 .. Len(UpperChars) : UpperChars[k] = c]
  ELSE c

\* utils::StrIcaseEqual{}(lhs, rhs)
StrIcaseEqual(lhs, rhs) ==
  /\ Len(lhs) = Len(rhs)
  /\ \A k \in 1 .. Len(lhs) : ToLower(lhs[k]) = ToLower(rhs[k])

\* static constexpr auto kSep = " ,()\"";
kSep == {" ", ",", "(", ")", "\""}

kQuorumKeyword == <<"A", "N", "Y">>
kMultiKeyword == <<"F", "I", "R", "S", "T">>

Digits == <<"0", "1", "2", "3", "4", "5", "6", "7", "8", "9">>
IsDigit(c) == \E k \in 1 .. 10 : Digits[k] = c
DigitValue(c) == (CHOOSE k \in 1 .. 10 : Digits[k] = c) - 1

\* sv.find_first_not_of(kSep): 0 stands for npos, positions are 1-based
FindFirstNotOf(sv) ==
  IF \E k \in 1 .. Len(sv) : sv[k] \notin kSep
  THEN CHOOSE k \in 1 .. Len(sv) :
         /\ sv[k] \notin kSep
         /\ \A j \in 1 .. (k - 1) : sv[j] \in kSep
  ELSE 0

\* sv.find_first_of(kSep): 0 stands for npos, positions are 1-based
FindFirstOf(sv) ==
  IF \E k \in 1 .. Len(sv) : sv[k] \in kSep
  THEN CHOOSE k \in 1 .. Len(sv) :
         /\ sv[k] \in kSep
         /\ \A j \in 1 .. (k - 1) : sv[j] \notin kSep
  ELSE 0

\* ConsumeToken(sv): the token returned and what is left of sv
ConsumeToken(sv) ==
  LET sep_end == FindFirstNotOf(sv) IN
  IF sep_end = 0 THEN [token |-> <<>>, sv |-> sv]
  ELSE LET sv1 == SubSeq(sv, sep_end, Len(sv))
           tok_end == FindFirstOf(sv1)
       IN IF tok_end = 0 THEN [token |-> sv1, sv |-> <<>>]
          ELSE [token |-> SubSeq(sv1, 1, tok_end - 1),
                sv |-> SubSeq(sv1, tok_end, Len(sv1))]

RECURSIVE ParseSizeFrom(_, _, _)
ParseSizeFrom(token, k, result) ==
  IF k > Len(token) \/ ~IsDigit(token[k]) THEN result
  ELSE ParseSizeFrom(token, k + 1, result * 10 + DigitValue(token[k]))

\* ParseSize(token): the leading decimal digits.  The replies of the model
\* hold counts of one digit, far from the width of size_t.
ParseSize(token) == ParseSizeFrom(token, 1, 0)

\* the loop `while (num_sync--)` of ParseSyncStandbyNames
RECURSIVE CollectNames(_, _, _, _)
CollectNames(num_sync, token, value, sync_slave_names) ==
  IF num_sync = 0 THEN sync_slave_names
  ELSE LET next == ConsumeToken(value) IN
       CollectNames(num_sync - 1, next.token, next.sv,
                    Append(sync_slave_names, token))

ParseSyncStandbyNames(value) ==
  LET first == ConsumeToken(value) IN
  IF StrIcaseEqual(first.token, kQuorumKeyword)
  THEN <<>>
  ELSE IF first.token = <<>> THEN <<>>
  ELSE LET afterKw == IF StrIcaseEqual(first.token, kMultiKeyword)
                      THEN ConsumeToken(first.sv)
                      ELSE first
       IN IF \E k \in 1 .. Len(afterKw.sv) : afterKw.sv[k] = "("
          THEN LET names == ConsumeToken(afterKw.sv) IN
               CollectNames(ParseSize(afterKw.token), names.token, names.sv, <<>>)
          ELSE CollectNames(1, afterKw.token, afterKw.sv, <<>>)

(***************************************************************************)
(* The cluster the discovery is pointed at.                                *)
(***************************************************************************)
\* EscapeHostName(OptionsFromDsn(dsn).host) of the DSNs, by position; two
\* DSNs of one host (different ports) share the name
AppNames == << <<"a">>, <<"B">>, <<"c">> >>
app_name(i) == AppNames[(i % Len(AppNames)) + 1]

\* values of synchronous_standby_names a read-write host may report
Replies ==
  { <<"A", "N", "Y", " ", "1", " ", "(", "b", ")">>,
    <<"F", "I", "R", "S", "T", " ", "1", " ", "(", "b", ",", " ", "c", ")">> }

\* a host of a cluster that does not change between cycles: it is
\* unreachable, or it answers every probe with the same read-only flag, the
\* same roundtrip time and (a master) the same synchronous_standby_names
SteadyHosts ==
  {[up |-> FALSE, is_ro |-> TRUE, rtt |-> 0, value |-> <<>>]}
    \cup {[up |-> TRUE, is_ro |-> TRUE, rtt |-> r, value |-> <<>>] : r \in Rtts}
    \cup {[up |-> TRUE, is_ro |-> FALSE, rtt |-> r, value |-> v] :
            r \in Rtts, v \in Replies}

(***************************************************************************)
(* Values given to the parser on its own.                                  *)
(***************************************************************************)
\* the words a value is made of: keywords in both cases, a count, the
\* punctuation of the list, names
Words ==
  { <<"A", "N", "Y">>, <<"a", "n", "y">>, <<"F", "I", "R", "S", "T">>,
    <<"2">>, <<"(">>, <<")">>, <<",">>, <<"a">>, <<"b">> }

WordLists == UNION {[1 .. n -> Words] : n \in 0 .. MaxWords}

\* the value read from pg_settings: the words with one blank between them
RECURSIVE JoinWords(_)
JoinWords(words) ==
  IF words = <<>> THEN <<>>
  ELSE IF Len(words) = 1 THEN words[1]
  ELSE words[1] \o <<" ">> \o JoinWords(Tail(words))

(***************************************************************************)
(* State.                                                                  *)
(***************************************************************************)
VARIABLES
  host_states,            \* std::vector<HostState> host_states_
  dsn_indices_by_type_,   \* rcu::Variable<DsnIndicesByType>
  alive_dsn_indices_,     \* rcu::Variable<DsnIndices>
  pc,                     \* where the constructor / RunDiscovery stands
  periodic,               \* discovery_task_ has been started
  idx,                    \* loop index i of the spawn and join loops
  tasks,                  \* tasks[i]: where the probe task of host i stands
  ro,                     \* RunCheck's local `ro` while the probe holds it
  alive_dsn_indices,      \* RunDiscovery's local alive_dsn_indices
  dsn_indices_by_type,    \* RunDiscovery's local dsn_indices_by_type
  snapshot_age,           \* calls of RunDiscovery begun since the call that
                          \* assigned each rcu variable (0: the current one)
  steady,                 \* what the hosts answer, and how std::sort orders
                          \* equal elements, while nothing changes
  parse                   \* a call of ParseSyncStandbyNames on its own

vars == <<host_states, dsn_indices_by_type_, alive_dsn_indices_, pc, periodic,
          idx, tasks, ro, alive_dsn_indices, dsn_indices_by_type,
          snapshot_age, steady, parse>>

\* DsnIndicesByType maps a ClusterHostType to DsnIndices; a key that was
\* never written reads as the empty list
EmptyByType == [r \in ClusterHostType |-> <<>>]

\* HostState::HostState: no connection, kNone, kUnknownRtt, no names
InitialHostState ==
  [connection |-> FALSE, role |-> kNone, roundtrip_time |-> kUnknownRtt,
   detected_sync_slaves |-> <<>>]

Finished == {"released", "failed", "threw"}

\* the members of Impl when the constructor body is entered
Constructed ==
  /\ host_states = [i \in Hosts |-> InitialHostState]
  /\ dsn_indices_by_type_ = EmptyByType
  /\ alive_dsn_indices_ = <<>>
  /\ pc = "ctor"
  /\ periodic = FALSE
  /\ idx = 0
  /\ tasks = [i \in Hosts |-> "none"]
  /\ ro = [i \in Hosts |-> "none"]
  /\ alive_dsn_indices = <<>>
  /\ dsn_indices_by_type = EmptyByType
  /\ snapshot_age = [by_type |-> 0, alive |-> 0]

\* the DSN indices in ascending order
AllHosts == [k \in 1 .. NumHosts |-> k - 1]

\* no promise about the cluster: every probe may get any answer
Unsteady ==
  [hosts |-> [i \in Hosts |-> [up |-> FALSE, is_ro |-> TRUE, rtt |-> 0,
                               value |-> <<>>]],
   ties |-> AllHosts]

\* no call of the parser on its own
ParseIdle == [words |-> <<>>, value |-> <<>>, returned |-> <<>>, done |-> TRUE]

Init ==
  /\ Constructed
  /\ steady = Unsteady
  /\ parse = ParseIdle

(***************************************************************************)
(* RunCheck(idx): the probe of one host.                                   *)
(***************************************************************************)
\* a guard that forgets to drop the connection
GuardResetKeepsConnection(state) ==
  [state EXCEPT !.role = kNone,
                !.roundtrip_time = kUnknownRtt,
                !.detected_sync_slaves = <<>>]

\* a guard that forgets to clear the names
GuardResetKeepsSyncSlaves(state) ==
  [state EXCEPT !.connection = FALSE,
                !.role = kNone,
                !.roundtrip_time = kUnknownRtt]

\* the ScopeGuard role_check_guard firing
GuardReset(state) ==
  [state EXCEPT !.connection = FALSE,
                !.role = kNone,
                !.roundtrip_time = kUnknownRtt,
                !.detected_sync_slaves = <<>>]

\* state.role = ro ? kSlave : kMaster
RoleFromReadOnly(is_ro) == IF is_ro THEN kSlave ELSE kMaster

\* a probe that connects whether or not a connection is held
ConnectDoneAlways(i) ==
  /\ tasks[i] = "spawned"
  /\ \E outcome \in {"ok", "connection_error", "other_error"} :
       /\ host_states' = [host_states EXCEPT ![i] =
            IF outcome = "ok" THEN [@ EXCEPT !.connection = TRUE]
            ELSE GuardReset(@)]
       /\ tasks' = [tasks EXCEPT ![i] =
            CASE outcome = "ok" -> "check"
              [] outcome = "connection_error" -> "failed"
              [] OTHER -> "threw"]
  /\ UNCHANGED <<snapshot_age, steady, parse, dsn_indices_by_type_,
                 alive_dsn_indices_, pc, periodic, idx, ro, alive_dsn_indices,
                 dsn_indices_by_type>>

\* The task runs RunCheck up to its first wait.  The guard is armed; with
\* no connection the first wait is Connect, which returns, throws
\* ConnectionError (caught: return, the guard fires) or throws something
\* else (the guard fires, the exception leaves RunCheck and is stored in
\* the task)
ConnectDone(i) ==
  /\ tasks[i] = "spawned"
  /\ ~host_states[i].connection
  /\ \E outcome \in {"ok", "connection_error", "other_error"} :
       /\ host_states' = [host_states EXCEPT ![i] =
            IF outcome = "ok" THEN [@ EXCEPT !.connection = TRUE]
            ELSE GuardReset(@)]
       /\ tasks' = [tasks EXCEPT ![i] =
            CASE outcome = "ok" -> "check"
              [] outcome = "connection_error" -> "failed"
              [] OTHER -> "threw"]
  /\ UNCHANGED <<snapshot_age, steady, parse, dsn_indices_by_type_, alive_dsn_indices_, pc, periodic,
                 idx, ro, alive_dsn_indices, dsn_indices_by_type>>

\* the probe waits in CheckReadOnly: after Connect, or at once when the
\* connection of an earlier cycle was kept
InCheckReadOnly(i) ==
  \/ tasks[i] = "check"
  \/ tasks[i] = "spawned" /\ host_states[i].connection

\* a probe that clears the names of a host that answers read-only
CheckReadOnlyAnswerClearsNames(i) ==
  /\ InCheckReadOnly(i)
  /\ \E is_ro \in BOOLEAN, rtt \in Rtts :
       /\ host_states' = [host_states EXCEPT ![i] =
            [@ EXCEPT !.role = RoleFromReadOnly(is_ro),
                      !.roundtrip_time = rtt,
                      !.detected_sync_slaves = IF is_ro THEN <<>> ELSE @]]
       /\ ro' = [ro EXCEPT ![i] = IF is_ro THEN "ro" ELSE "rw"]
       /\ tasks' = [tasks EXCEPT ![i] =
            IF RoleFromReadOnly(is_ro) = kMaster THEN "execute"
            ELSE "released"]
  /\ UNCHANGED <<snapshot_age, steady, parse, dsn_indices_by_type_,
                 alive_dsn_indices_, pc, periodic, idx, alive_dsn_indices,
                 dsn_indices_by_type>>

\* CheckReadOnly answers: role and roundtrip_time are stored; a slave
\* releases the guard and returns, a master goes on to Execute
CheckReadOnlyAnswer(i) ==
  /\ InCheckReadOnly(i)
  /\ \E is_ro \in BOOLEAN, rtt \in Rtts :
       /\ host_states' = [host_states EXCEPT ![i] =
            [@ EXCEPT !.role = RoleFromReadOnly(is_ro),
                      !.roundtrip_time = rtt]]
       /\ ro' = [ro EXCEPT ![i] = IF is_ro THEN "ro" ELSE "rw"]
       /\ tasks' = [tasks EXCEPT ![i] =
            IF RoleFromReadOnly(is_ro) = kMaster THEN "execute"
            ELSE "released"]
  /\ UNCHANGED <<snapshot_age, steady, parse, dsn_indices_by_type_, alive_dsn_indices_, pc, periodic,
                 idx, alive_dsn_indices, dsn_indices_by_type>>

\* CheckReadOnly throws: ConnectionError is caught (the guard fires on
\* return), anything else leaves RunCheck (the guard fires on unwinding)
CheckReadOnlyError(i) ==
  /\ InCheckReadOnly(i)
  /\ \E outcome \in {"connection_error", "other_error"} :
       tasks' = [tasks EXCEPT ![i] =
         IF outcome = "connection_error" THEN "failed" ELSE "threw"]
  /\ host_states' = [host_states EXCEPT ![i] = GuardReset(@)]
  /\ UNCHANGED <<snapshot_age, steady, parse, dsn_indices_by_type_, alive_dsn_indices_, pc, periodic,
                 idx, ro, alive_dsn_indices, dsn_indices_by_type>>

\* a probe of the master that marks the hosts it names by itself
ExecuteAnswerPromotes(i) ==
  /\ tasks[i] = "execute"
  /\ \E value \in Replies :
       host_states' =
         [j \in Hosts |->
            IF j = i
            THEN [host_states[j] EXCEPT
                    !.detected_sync_slaves = ParseSyncStandbyNames(value)]
            ELSE IF \E n \in 1 .. Len(ParseSyncStandbyNames(value)) :
                      StrIcaseEqual(app_name(j), ParseSyncStandbyNames(value)[n])
                 THEN [host_states[j] EXCEPT !.role = kSyncSlave]
                 ELSE host_states[j]]
  /\ tasks' = [tasks EXCEPT ![i] = "released"]
  /\ UNCHANGED <<snapshot_age, steady, parse, dsn_indices_by_type_,
                 alive_dsn_indices_, pc, periodic, idx, ro, alive_dsn_indices,
                 dsn_indices_by_type>>

\* Execute(kShowSyncStandbyNames) answers: the value is parsed and stored,
\* the guard is released
ExecuteAnswer(i) ==
  /\ tasks[i] = "execute"
  /\ \E value \in Replies :
       host_states' = [host_states EXCEPT ![i] =
         [@ EXCEPT !.detected_sync_slaves = ParseSyncStandbyNames(value)]]
  /\ tasks' = [tasks EXCEPT ![i] = "released"]
  /\ UNCHANGED <<snapshot_age, steady, parse, dsn_indices_by_type_, alive_dsn_indices_, pc, periodic,
                 idx, ro, alive_dsn_indices, dsn_indices_by_type>>

\* Execute or AsSingleRow throws
ExecuteError(i) ==
  /\ tasks[i] = "execute"
  /\ \E outcome \in {"connection_error", "other_error"} :
       tasks' = [tasks EXCEPT ![i] =
         IF outcome = "connection_error" THEN "failed" ELSE "threw"]
  /\ host_states' = [host_states EXCEPT ![i] = GuardReset(@)]
  /\ ro' = [ro EXCEPT ![i] = "none"]
  /\ UNCHANGED <<snapshot_age, steady, parse, dsn_indices_by_type_, alive_dsn_indices_, pc, periodic,
                 idx, alive_dsn_indices, dsn_indices_by_type>>

(***************************************************************************)
(* RunDiscovery(): one discovery cycle.                                    *)
(***************************************************************************)
\* a call of RunDiscovery begins: both snapshots are one cycle older
Older(age) ==
  [v \in DOMAIN age |-> IF age[v] < MaxAge THEN age[v] + 1 ELSE MaxAge]

\* the constructor calls RunDiscovery() before StartPeriodicTask()
ConstructorRunDiscovery ==
  /\ pc = "ctor"
  /\ pc' = IF NumHosts = 0 THEN "promote" ELSE "spawn"
  /\ idx' = 0
  /\ snapshot_age' = Older(snapshot_age)
  /\ UNCHANGED <<steady, parse, host_states, dsn_indices_by_type_, alive_dsn_indices_,
                 periodic, tasks, ro, alive_dsn_indices, dsn_indices_by_type>>

\* StartPeriodicTask() at the end of the constructor
StartPeriodicTask ==
  /\ pc = "ctor_returned"
  /\ pc' = "idle"
  /\ periodic' = TRUE
  /\ UNCHANGED <<snapshot_age, steady, parse, host_states, dsn_indices_by_type_, alive_dsn_indices_,
                 idx, tasks, ro, alive_dsn_indices,
                 dsn_indices_by_type>>

\* a tick of discovery_task_ calls RunDiscovery(); the next tick is not
\* taken before this call has returned
PeriodicRunDiscovery ==
  /\ pc = "idle"
  /\ periodic
  /\ pc' = IF NumHosts = 0 THEN "promote" ELSE "spawn"
  /\ idx' = 0
  /\ snapshot_age' = Older(snapshot_age)
  /\ UNCHANGED <<steady, parse, host_states, dsn_indices_by_type_, alive_dsn_indices_,
                 periodic, tasks, ro, alive_dsn_indices, dsn_indices_by_type>>

\* tasks.emplace_back(engine::impl::Async([this, i] { RunCheck(i); }))
SpawnTask ==
  /\ pc = "spawn"
  /\ idx < NumHosts
  /\ tasks' = [tasks EXCEPT ![idx] = "spawned"]
  /\ ro' = [ro EXCEPT ![idx] = "none"]
  /\ idx' = IF idx + 1 = NumHosts THEN 0 ELSE idx + 1
  /\ pc' = IF idx + 1 = NumHosts THEN "join" ELSE "spawn"
  /\ UNCHANGED <<snapshot_age, steady, parse, host_states, dsn_indices_by_type_, alive_dsn_indices_,
                 periodic, alive_dsn_indices, dsn_indices_by_type>>

\* every joined index is kept, alive or not
AliveAfterJoinUnchecked(alive, i, status) == Append(alive, i)

\* if (status.role != kNone) alive_dsn_indices.push_back(i)
AliveAfterJoin(alive, i, status) ==
  IF status.role # kNone THEN Append(alive, i) ELSE alive

\* tasks[i].Get() returns: the host state is read and the index kept if
\* the host is alive
JoinTask ==
  /\ pc = "join"
  /\ idx < NumHosts
  /\ tasks[idx] \in {"released", "failed"}
  /\ alive_dsn_indices' =
       AliveAfterJoin(alive_dsn_indices, idx, host_states[idx])
  /\ idx' = IF idx + 1 = NumHosts THEN 0 ELSE idx + 1
  /\ pc' = IF idx + 1 = NumHosts THEN "promote" ELSE "join"
  /\ UNCHANGED <<snapshot_age, steady, parse, host_states, dsn_indices_by_type_, alive_dsn_indices_,
                 periodic, tasks, ro, dsn_indices_by_type>>

\* tasks[i].Get() rethrows what left RunCheck: RunDiscovery is left by the
\* exception, its locals are destroyed
JoinTaskThrows ==
  /\ pc = "join"
  /\ idx < NumHosts
  /\ tasks[idx] = "threw"
  /\ pc' = "unwind"
  /\ idx' = 0
  /\ alive_dsn_indices' = <<>>
  /\ UNCHANGED <<snapshot_age, steady, parse, host_states, dsn_indices_by_type_, alive_dsn_indices_,
                 periodic, tasks, ro, dsn_indices_by_type>>

\* destruction of `tasks` cancels and awaits each task: one that has not
\* started running never runs RunCheck
CancelTask(i) ==
  /\ pc = "unwind"
  /\ tasks[i] = "spawned"
  /\ tasks' = [tasks EXCEPT ![i] = "cancelled"]
  /\ UNCHANGED <<snapshot_age, steady, parse, host_states, dsn_indices_by_type_, alive_dsn_indices_, pc,
                 periodic, idx, ro, alive_dsn_indices,
                 dsn_indices_by_type>>

\* every task is over: the exception leaves the constructor (no object is
\* built) or is caught by the periodic task, which waits for its next tick
UnwindDone ==
  /\ pc = "unwind"
  /\ \A i \in Hosts : tasks[i] \in Finished \cup {"cancelled"}
  /\ pc' = IF periodic THEN "idle" ELSE "ctor_failed"
  /\ tasks' = [i \in Hosts |-> "none"]
  /\ ro' = [i \in Hosts |-> "none"]
  /\ UNCHANGED <<snapshot_age, steady, parse, host_states, dsn_indices_by_type_, alive_dsn_indices_,
                 periodic, idx, alive_dsn_indices,
                 dsn_indices_by_type>>

\* a lookup by the stored names instead of the role
FindMasterByNames(states) ==
  IF \E i \in Hosts : states[i].detected_sync_slaves # <<>>
  THEN CHOOSE i \in Hosts :
         /\ states[i].detected_sync_slaves # <<>>
         /\ \A j \in Hosts : j < i => states[j].detected_sync_slaves = <<>>
  ELSE NumHosts

\* std::find_if(host_states_.begin(), host_states_.end(), role == kMaster):
\* the first master, NumHosts for end()
FindMaster(states) ==
  IF \E i \in Hosts : states[i].role = kMaster
  THEN CHOOSE i \in Hosts :
         /\ states[i].role = kMaster
         /\ \A j \in Hosts : j < i => states[j].role # kMaster
  ELSE NumHosts

\* the body of the two nested loops: state.role = kSyncSlave for every
\* alive host whose app_name equals, ignoring case, a name of the master
SyncSlaveAttribution(states, alive, master) ==
  [i \in Hosts |->
     IF /\ \E k \in 1 .. Len(alive) : alive[k] = i
        /\ \E n \in 1 .. Len(states[master].detected_sync_slaves) :
             StrIcaseEqual(app_name(i),
                           states[master].detected_sync_slaves[n])
     THEN [states[i] EXCEPT !.role = kSyncSlave]
     ELSE states[i]]

\* master lookup and sync slave attribution
Promote ==
  /\ pc = "promote"
  /\ LET master == FindMaster(host_states) IN
       host_states' =
         IF master # NumHosts /\ host_states[master].detected_sync_slaves # <<>>
         THEN SyncSlaveAttribution(host_states, alive_dsn_indices, master)
         ELSE host_states
  /\ pc' = "sort"
  /\ UNCHANGED <<snapshot_age, steady, parse, dsn_indices_by_type_, alive_dsn_indices_, periodic, idx, tasks, ro, alive_dsn_indices, dsn_indices_by_type>>

\* the orders of `alive` that have the same elements
Orderings(alive) ==
  { p \in [1 .. Len(alive) -> Hosts] :
      /\ \A k \in 1 .. Len(alive) : \E j \in 1 .. Len(alive) : p[j] = alive[k]
      /\ \A j, k \in 1 .. Len(alive) : p[j] = p[k] => j = k }

\* no sorting at all
SortResultsUnsorted(alive, states) == {alive}

\* the comparison turned round: greater roundtrip_time first
SortResultsReversed(alive, states) ==
  { p \in Orderings(alive) :
      \A j, k \in 1 .. Len(alive) :
        j < k => ~(states[p[j]].roundtrip_time < states[p[k]].roundtrip_time) }

\* what std::sort may leave: any order of the elements in which no element
\* compares less (smaller roundtrip_time) than one before it; the order of
\* elements that compare equal is unspecified
SortResults(alive, states) ==
  { p \in Orderings(alive) :
      \A j, k \in 1 .. Len(alive) :
        j < k => ~(states[p[k]].roundtrip_time < states[p[j]].roundtrip_time) }

Sort ==
  /\ pc = "sort"
  /\ alive_dsn_indices' \in SortResults(alive_dsn_indices, host_states)
  /\ pc' = "build"
  /\ UNCHANGED <<snapshot_age, steady, parse, host_states, dsn_indices_by_type_, alive_dsn_indices_,
                 periodic, idx, tasks, ro, dsn_indices_by_type>>

\* a pass that leaves sync slaves out of the slave bucket
PushByTypeRoleOnly(by_type, i, state) ==
  [by_type EXCEPT ![state.role] = Append(@, i)]

\* a pass that puts a sync slave at the head of the slave bucket
PushByTypeSyncFirst(by_type, i, state) ==
  LET pushed == [by_type EXCEPT ![state.role] = Append(@, i)] IN
  IF state.role = kSyncSlave
  THEN [pushed EXCEPT ![kSlave] = <<i>> \o @]
  ELSE pushed

\* one pass of the loop that fills dsn_indices_by_type
PushByType(by_type, i, state) ==
  LET pushed == [by_type EXCEPT ![state.role] = Append(@, i)] IN
  IF state.role = kSyncSlave
  THEN [pushed EXCEPT ![kSlave] = Append(@, i)]
  ELSE pushed

RECURSIVE BuildByType(_, _, _, _)
BuildByType(by_type, alive, k, states) ==
  IF k > Len(alive) THEN by_type
  ELSE BuildByType(PushByType(by_type, alive[k], states[alive[k]]),
                   alive, k + 1, states)

\* a build that fills the published map instead of a local one
BuildInPlace ==
  /\ pc = "build"
  /\ dsn_indices_by_type_' =
       BuildByType(EmptyByType, alive_dsn_indices, 1, host_states)
  /\ dsn_indices_by_type' = dsn_indices_by_type_'
  /\ pc' = "assign_by_type"
  /\ UNCHANGED <<snapshot_age, steady, parse, host_states, alive_dsn_indices_, periodic, idx, tasks, ro,
                 alive_dsn_indices>>

Build ==
  /\ pc = "build"
  /\ dsn_indices_by_type' =
       BuildByType(EmptyByType, alive_dsn_indices, 1, host_states)
  /\ pc' = "assign_by_type"
  /\ UNCHANGED <<snapshot_age, steady, parse, host_states, dsn_indices_by_type_, alive_dsn_indices_,
                 periodic, idx, tasks, ro, alive_dsn_indices>>

\* dsn_indices_by_type_.Assign(std::move(dsn_indices_by_type))
AssignByType ==
  /\ pc = "assign_by_type"
  /\ dsn_indices_by_type_' = dsn_indices_by_type
  /\ dsn_indices_by_type' = EmptyByType
  /\ pc' = "assign_alive"
  /\ snapshot_age' = [snapshot_age EXCEPT !.by_type = 0]
  /\ UNCHANGED <<steady, parse, host_states, alive_dsn_indices_, periodic, idx,
                 tasks, ro, alive_dsn_indices>>

\* an assignment that keeps the old list when the new one is empty
AssignAliveUnlessEmpty ==
  /\ pc = "assign_alive"
  /\ alive_dsn_indices_' =
       IF alive_dsn_indices = <<>> THEN alive_dsn_indices_
       ELSE alive_dsn_indices
  /\ pc' = "published"
  /\ snapshot_age' = [snapshot_age EXCEPT !.alive = 0]
  /\ UNCHANGED <<steady, parse, host_states, dsn_indices_by_type_, periodic,
                 idx, tasks, ro, alive_dsn_indices, dsn_indices_by_type>>

\* alive_dsn_indices_.Assign(alive_dsn_indices)
AssignAlive ==
  /\ pc = "assign_alive"
  /\ alive_dsn_indices_' = alive_dsn_indices
  /\ pc' = "published"
  /\ snapshot_age' = [snapshot_age EXCEPT !.alive = 0]
  /\ UNCHANGED <<steady, parse, host_states, dsn_indices_by_type_, periodic, idx,
                 tasks, ro, alive_dsn_indices, dsn_indices_by_type>>

\* RunDiscovery returns: its locals (the tasks, the lists) are destroyed
ReturnFromRunDiscovery ==
  /\ pc = "published"
  /\ pc' = IF periodic THEN "idle" ELSE "ctor_returned"
  /\ tasks' = [i \in Hosts |-> "none"]
  /\ ro' = [i \in Hosts |-> "none"]
  /\ alive_dsn_indices' = <<>>
  /\ UNCHANGED <<snapshot_age, steady, parse, host_states, dsn_indices_by_type_, alive_dsn_indices_,
                 periodic, idx, dsn_indices_by_type>>

(***************************************************************************)
(* Clients.  The getters change nothing: each returns the snapshot its rcu *)
(* variable holds at the moment of the call, and the handle keeps that     *)
(* snapshot whatever is assigned later.                                    *)
(***************************************************************************)
\* return dsn_indices_by_type_.Read()
GetDsnIndicesByType == dsn_indices_by_type_

\* return alive_dsn_indices_.Read()
GetAliveDsnIndices == alive_dsn_indices_

Next ==
  \/ ConstructorRunDiscovery
  \/ StartPeriodicTask
  \/ PeriodicRunDiscovery
  \/ SpawnTask
  \/ JoinTask
  \/ JoinTaskThrows
  \/ \E i \in Hosts : CancelTask(i)
  \/ UnwindDone
  \/ Promote
  \/ Sort
  \/ Build
  \/ AssignByType
  \/ AssignAlive
  \/ ReturnFromRunDiscovery
  \/ \E i \in Hosts : ConnectDone(i)
  \/ \E i \in Hosts : CheckReadOnlyAnswer(i)
  \/ \E i \in Hosts : CheckReadOnlyError(i)
  \/ \E i \in Hosts : ExecuteAnswer(i)
  \/ \E i \in Hosts : ExecuteError(i)

Spec == Init /\ [][Next]_vars

(***************************************************************************)
(* Discovery of a cluster that does not change: every host gives the same  *)
(* answers in every cycle, no probe throws, and std::sort, being a         *)
(* function of its input, leaves equal elements in the same order in every *)
(* call.                                                                   *)
(***************************************************************************)
SteadyClusters == [hosts : [Hosts -> SteadyHosts], ties : Orderings(AllHosts)]

SteadyInit ==
  /\ Constructed
  /\ steady \in SteadyClusters
  /\ parse = ParseIdle

\* the place of host i in the order this build's std::sort gives to
\* elements that compare equal
TieRank(i) == CHOOSE k \in 1 .. NumHosts : steady.ties[k] = i

\* a sort that may order equal elements differently in every call
StdSortAnyTieOrder(alive, states) == SortResults(alive, states)

\* the one result std::sort gives for this input
StdSort(alive, states) ==
  { p \in SortResults(alive, states) :
      \A j, k \in 1 .. Len(p) :
        (j < k /\ states[p[j]].roundtrip_time = states[p[k]].roundtrip_time)
          => TieRank(p[j]) < TieRank(p[k]) }

\* Connect succeeds on a host that is up, throws ConnectionError otherwise
SteadyConnectDone(i) ==
  /\ ConnectDone(i)
  /\ tasks'[i] = IF steady.hosts[i].up THEN "check" ELSE "failed"

SteadyCheckReadOnlyAnswer(i) ==
  /\ CheckReadOnlyAnswer(i)
  /\ ro'[i] = IF steady.hosts[i].is_ro THEN "ro" ELSE "rw"
  /\ host_states'[i].roundtrip_time = steady.hosts[i].rtt

SteadyExecuteAnswer(i) ==
  /\ ExecuteAnswer(i)
  /\ host_states'[i].detected_sync_slaves =
       ParseSyncStandbyNames(steady.hosts[i].value)

SteadySort ==
  /\ Sort
  /\ alive_dsn_indices' \in StdSort(alive_dsn_indices, host_states)

SteadyNext ==
  \/ ConstructorRunDiscovery
  \/ StartPeriodicTask
  \/ PeriodicRunDiscovery
  \/ SpawnTask
  \/ JoinTask
  \/ Promote
  \/ SteadySort
  \/ Build
  \/ AssignByType
  \/ AssignAlive
  \/ ReturnFromRunDiscovery
  \/ \E i \in Hosts : SteadyConnectDone(i)
  \/ \E i \in Hosts : SteadyCheckReadOnlyAnswer(i)
  \/ \E i \in Hosts : SteadyExecuteAnswer(i)

SteadySpec == SteadyInit /\ [][SteadyNext]_vars

(***************************************************************************)
(* The parser on its own: ParseSyncStandbyNames called once on each value  *)
(* made of at most MaxWords words.                                         *)
(***************************************************************************)
ParserInit ==
  /\ Constructed
  /\ steady = Unsteady
  /\ parse \in {[words |-> w, value |-> JoinWords(w), returned |-> <<>>,
                 done |-> FALSE] : w \in WordLists}

\* ParseSyncStandbyNames(value) returns
ParseCall ==
  /\ ~parse.done
  /\ parse' = [parse EXCEPT !.returned = ParseSyncStandbyNames(parse.value),
                            !.done = TRUE]
  /\ UNCHANGED <<host_states, dsn_indices_by_type_, alive_dsn_indices_, pc,
                 periodic, idx, tasks, ro, alive_dsn_indices,
                 dsn_indices_by_type, snapshot_age, steady>>

ParserNext == ParseCall

ParserSpec == ParserInit /\ [][ParserNext]_vars

(***************************************************************************)
(* Properties.                                                             *)
(***************************************************************************)
Count(seq, i) == Cardinality({k \in 1 .. Len(seq) : seq[k] = i})
InSeq(seq, i) == \E k \in 1 .. Len(seq) : seq[k] = i

\* dsn_indices_by_type_ holds what this call of RunDiscovery assigned
ByTypePublished == pc \in {"assign_alive", "published"}
\* both rcu variables hold what this call of RunDiscovery assigned
BothPublished == pc = "published"

\* C1: every index of a snapshot RunDiscovery publishes (any bucket of the
\* by-type map, the alive list) is the index of a host whose role is not
\* kNone when the snapshot is published.
C1_PublishedIndicesAreAlive ==
  /\ ByTypePublished =>
       \A r \in ClusterHostType : \A i \in Hosts :
         InSeq(dsn_indices_by_type_[r], i) => host_states[i].role # kNone
  /\ BothPublished =>
       \A i \in Hosts :
         InSeq(alive_dsn_indices_, i) => host_states[i].role # kNone

\* a cycle with mixed probe outcomes has published: one host alive and
\* listed, another one unreachable
C1_Witness ==
  /\ BothPublished
  /\ Len(alive_dsn_indices_) = 1
  /\ \E i \in Hosts : host_states[i].role = kNone /\ tasks[i] = "failed"

\* C2: whatever fails inside a probe, no exception reaches RunDiscovery:
\* every task ends with RunCheck having returned, and RunDiscovery is never
\* left by an exception before it has published.
C2_NoProbeFailureReachesRunDiscovery == pc # "unwind"

\* alive is ordered by non-decreasing roundtrip_time of the hosts
SortedByRtt(alive, states) ==
  \A j, k \in 1 .. Len(alive) :
    j < k => states[alive[j]].roundtrip_time <= states[alive[k]].roundtrip_time

\* C3: what a getter returns changes only when RunDiscovery assigns the rcu
\* variable, and the value assigned is the finished result of that cycle
\* (the by-type map built from the joined, promoted and sorted alive list;
\* the sorted alive list itself).  While a cycle probes, promotes, sorts and
\* builds, a getter returns the snapshot of the last cycle that published.
C3_GettersReturnCommittedSnapshots ==
  [][ /\ GetDsnIndicesByType' # GetDsnIndicesByType =>
           /\ pc = "assign_by_type"
           /\ \A i \in Hosts : tasks[i] \in {"released", "failed"}
           /\ GetDsnIndicesByType' =
                BuildByType(EmptyByType, alive_dsn_indices, 1, host_states)
      /\ GetAliveDsnIndices' # GetAliveDsnIndices =>
           /\ pc = "assign_alive"
           /\ \A i \in Hosts : tasks[i] \in {"released", "failed"}
           /\ GetAliveDsnIndices' = alive_dsn_indices
           /\ SortedByRtt(alive_dsn_indices, host_states)
           /\ \A i \in Hosts :
                InSeq(alive_dsn_indices, i) <=> host_states[i].role # kNone
    ]_vars

\* a later cycle is under way (a host of the published alive list has been
\* reset by its probe, the by-type map of the new cycle is built and not
\* yet assigned) while the getters still return the earlier snapshots
C3_Witness ==
  /\ periodic
  /\ pc = "assign_by_type"
  /\ GetAliveDsnIndices # <<>>
  /\ GetDsnIndicesByType # dsn_indices_by_type
  /\ \E i \in Hosts :
       InSeq(GetAliveDsnIndices, i) /\ host_states[i].role = kNone

\* the host state as the guard leaves it
IsReset(state) ==
  /\ ~state.connection
  /\ state.role = kNone
  /\ state.roundtrip_time = kUnknownRtt
  /\ state.detected_sync_slaves = <<>>

\* C4: when RunCheck(i) ends after a failed step (its task ends "failed" or
\* "threw"), the state of host i is reset, connection dropped; and a
\* connection that is absent stays absent until the next probe of the host
\* connects, so it is absent when the next cycle starts.
C4_FailedProbeDropsConnection ==
  [][ \A i \in Hosts :
        /\ tasks'[i] \in {"failed", "threw"} => IsReset(host_states'[i])
        /\ (~host_states[i].connection /\ tasks'[i] # "check")
             => ~host_states'[i].connection
    ]_vars

\* a host that an earlier cycle published as alive (so it held a
\* connection) has failed its probe in this cycle
C4_Witness ==
  \E i \in Hosts :
    /\ tasks[i] = "failed"
    /\ InSeq(alive_dsn_indices_, i)
    /\ IsReset(host_states[i])

\* no probe of host i is between two of its steps
NoProbeInProgress(i) == tasks[i] \notin {"check", "execute"}

\* C5: whenever no probe of host i is in progress, its state is either the
\* kNone tuple (no connection, kUnknownRtt, no names) or a probe result
\* (a role, a connection, a measured roundtrip_time).
C5_HostStateFieldsMoveTogether ==
  \A i \in Hosts :
    NoProbeInProgress(i) =>
      /\ host_states[i].role = kNone => IsReset(host_states[i])
      /\ host_states[i].role # kNone =>
           /\ host_states[i].connection
           /\ host_states[i].roundtrip_time \in Rtts

\* a master that had stored names in an earlier cycle has failed its probe
\* and is back at the kNone tuple
C5_Witness ==
  \E i \in Hosts :
    /\ tasks[i] \in {"failed", "threw"}
    /\ InSeq(dsn_indices_by_type_[kMaster], i)
    /\ host_states[i].role = kNone

\* the hosts whose probe of this cycle answered read-write and succeeded
CycleMasters == {i \in Hosts : tasks[i] = "released" /\ ro[i] = "rw"}

\* app_name of host i equals, ignoring case, a name stored by host m
NamedBy(i, m) ==
  \E n \in 1 .. Len(host_states[m].detected_sync_slaves) :
    StrIcaseEqual(app_name(i), host_states[m].detected_sync_slaves[n])

\* C6: a host is in the published SyncSlave bucket iff its probe of the
\* cycle answered read-only and a master of the cycle names it; a host
\* whose probe answered read-write is in the Master bucket and not in the
\* SyncSlave bucket.
C6_OnlySlavesArePromoted ==
  ByTypePublished =>
    \A i \in Hosts :
      /\ InSeq(dsn_indices_by_type_[kSyncSlave], i) <=>
           /\ tasks[i] = "released"
           /\ ro[i] = "ro"
           /\ \E m \in CycleMasters : NamedBy(i, m)
      /\ i \in CycleMasters =>
           /\ InSeq(dsn_indices_by_type_[kMaster], i)
           /\ ~InSeq(dsn_indices_by_type_[kSyncSlave], i)

\* C7: an index is published in the SyncSlave bucket only in a cycle that
\* saw exactly one read-write host, and that host names it.
C7_PromotionNeedsUniqueMaster ==
  ByTypePublished =>
    \A i \in Hosts :
      InSeq(dsn_indices_by_type_[kSyncSlave], i) =>
        /\ Cardinality(CycleMasters) = 1
        /\ \A m \in CycleMasters : NamedBy(i, m)

\* C8: in a published by-type map every host with role kSyncSlave is once
\* in the SyncSlave bucket and once in the Slave bucket; no index is twice
\* in a bucket or in the alive list.
C8_SyncSlaveInBothBuckets ==
  /\ ByTypePublished =>
       \A i \in Hosts :
         /\ host_states[i].role = kSyncSlave =>
              /\ Count(dsn_indices_by_type_[kSyncSlave], i) = 1
              /\ Count(dsn_indices_by_type_[kSlave], i) = 1
         /\ \A r \in ClusterHostType : Count(dsn_indices_by_type_[r], i) <= 1
  /\ BothPublished =>
       \A i \in Hosts : Count(alive_dsn_indices_, i) <= 1

\* a cycle has published a promoted host
C8_Witness ==
  /\ BothPublished
  /\ Len(dsn_indices_by_type_[kSyncSlave]) = 1
  /\ \E i \in Hosts : host_states[i].role = kSyncSlave

\* C9: a published alive list is in non-decreasing order of the
\* roundtrip_time the probes of the cycle stored.
C9_AliveSortedByRtt ==
  BothPublished => SortedByRtt(alive_dsn_indices_, host_states)

\* the sort had to move something: the host joined second is listed first
C9_Witness ==
  /\ BothPublished
  /\ Len(alive_dsn_indices_) = 2
  /\ alive_dsn_indices_[1] > alive_dsn_indices_[2]
  /\ host_states[alive_dsn_indices_[1]].roundtrip_time
       < host_states[alive_dsn_indices_[2]].roundtrip_time

\* C10: a cycle in which no probe that succeeded answered read-write
\* publishes an empty Master bucket, an empty SyncSlave bucket and a Slave
\* bucket equal to the alive list, which holds every host that answered, in
\* roundtrip_time order.
C10_NoMasterNoSyncSlaves ==
  (BothPublished /\ \A i \in Hosts : ro[i] # "rw") =>
    /\ dsn_indices_by_type_[kMaster] = <<>>
    /\ dsn_indices_by_type_[kSyncSlave] = <<>>
    /\ dsn_indices_by_type_[kSlave] = alive_dsn_indices_
    /\ \A i \in Hosts : InSeq(alive_dsn_indices_, i) <=> tasks[i] = "released"
    /\ SortedByRtt(alive_dsn_indices_, host_states)

\* every host answered read-only, one of them over the connection it kept
\* from a cycle in which it was the master and stored names
C10_Witness ==
  /\ BothPublished
  /\ \A i \in Hosts : ro[i] = "ro"
  /\ \E i \in Hosts :
       /\ host_states[i].role = kSlave
       /\ host_states[i].detected_sync_slaves # <<>>

\* every probe of the cycle ended with a caught ConnectionError
AllUnreachable == \A i \in Hosts : tasks[i] = "failed"

\* C11: a cycle in which every host was unreachable publishes a by-type map
\* without any index and an empty alive list, whatever the rcu variables
\* held before.
C11_AllUnreachablePublishesEmptyViews ==
  /\ (ByTypePublished /\ AllUnreachable) =>
       \A r \in ClusterHostType : dsn_indices_by_type_[r] = <<>>
  /\ (BothPublished /\ AllUnreachable) => alive_dsn_indices_ = <<>>

\* every host was unreachable in a cycle that follows one with alive hosts:
\* the by-type map has been replaced by the empty one, the alive list of
\* the earlier cycle is about to be replaced
C11_Witness ==
  /\ pc = "assign_alive"
  /\ AllUnreachable
  /\ alive_dsn_indices_ # <<>>
  /\ alive_dsn_indices = <<>>
  /\ \A r \in ClusterHostType : dsn_indices_by_type_[r] = <<>>

\* C12: on a cluster that does not change, every cycle after the first
\* publishes what the cycle before it published: assigning the by-type map
\* and the alive list of a periodic cycle leaves both rcu variables as the
\* constructor's cycle set them, whatever the host states kept from the
\* cycle before (connections, roles promoted to kSyncSlave, stored names).
C12_SecondCycleRepublishesTheSame ==
  [][ /\ (pc = "assign_by_type" /\ periodic) =>
           dsn_indices_by_type_' = dsn_indices_by_type_
      /\ (pc = "assign_alive" /\ periodic) =>
           alive_dsn_indices_' = alive_dsn_indices_
    ]_vars

\* a periodic cycle has published on a cluster with a promoted host and
\* two alive hosts of equal roundtrip_time, probed over kept connections
C12_Witness ==
  /\ periodic
  /\ BothPublished
  /\ dsn_indices_by_type_[kSyncSlave] # <<>>
  /\ Len(alive_dsn_indices_) = 2
  /\ host_states[alive_dsn_indices_[1]].roundtrip_time
       = host_states[alive_dsn_indices_[2]].roundtrip_time
  /\ steady.hosts[0].rtt = steady.hosts[1].rtt

\* the words that are separators of the value
Punctuation == {<<"(">>, <<")">>, <<",">>}
IsPunctuation(w) == w \in Punctuation
IsToken(w) == w \notin Punctuation
IsComma(w) == w = <<",">>
IsName(w) == w # <<",">>
IsCount(w) == w # <<>> /\ \A k \in 1 .. Len(w) : IsDigit(w[k])

\* the tokens of the words, in order
TokensOf(words) == SelectSeq(words, IsToken)

\* the words are [FIRST] num_sync ( names ): where the count stands
CountedForm(words, at) ==
  /\ at \in {1, 2}
  /\ Len(words) >= at + 2
  /\ at = 2 => StrIcaseEqual(words[1], kMultiKeyword)
  /\ IsCount(words[at])
  /\ words[at + 1] = <<"(">>
  /\ words[Len(words)] = <<")">>
  /\ \A k \in (at + 2) .. (Len(words) - 1) : words[k] \notin {<<"(">>, <<")">>}

\* the names between the parentheses of a counted form
ListedNames(words, at) ==
  SelectSeq(SubSeq(words, at + 2, Len(words) - 1), IsName)

FirstNames(names, n) ==
  SubSeq(names, 1, IF n < Len(names) THEN n ELSE Len(names))

\* C13: ParseSyncStandbyNames returns the empty sequence for an empty value
\* and for a value whose first token is ANY in any case; the first num_sync
\* names of the list, in order, for [FIRST] num_sync ( names ); and in every
\* case only tokens of the value, so never more elements than the value has
\* tokens.  (Only what the claim says of every input is stated; each
\* violation of this formula is a violation of the claim.)
C13_ParserReturnsNamesOfTheList ==
  parse.done =>
    LET tokens == TokensOf(parse.words) IN
    /\ (tokens = <<>> \/ StrIcaseEqual(tokens[1], kQuorumKeyword)) =>
         parse.returned = <<>>
    /\ \A at \in {1, 2} :
         CountedForm(parse.words, at) =>
           parse.returned =
             FirstNames(ListedNames(parse.words, at), ParseSize(parse.words[at]))
    /\ \A k \in 1 .. Len(parse.returned) : InSeq(tokens, parse.returned[k])
    /\ Len(parse.returned) <= Len(tokens)

\* hosts of equal roundtrip_time stand in ascending order of their index
TiesInIndexOrder(list, states) ==
  \A j, k \in 1 .. Len(list) :
    (j < k /\ states[list[j]].roundtrip_time = states[list[k]].roundtrip_time)
      => list[j] < list[k]

\* C14 (as stated): the sort is stable: two alive hosts of equal
\* roundtrip_time stand in the published alive list, and in every bucket of
\* the published by-type map, in ascending order of their DSN index.
C14_SortIsStable ==
  /\ BothPublished => TiesInIndexOrder(alive_dsn_indices_, host_states)
  /\ ByTypePublished =>
       \A r \in ClusterHostType :
         TiesInIndexOrder(dsn_indices_by_type_[r], host_states)

\* C14 (amended): the sort orders by roundtrip_time only: the published
\* alive list and every bucket of the published by-type map are in
\* non-decreasing order of roundtrip_time, and nothing is said of the order
\* of two hosts of equal roundtrip_time.
C14_OrderedByRttOnly ==
  /\ BothPublished => SortedByRtt(alive_dsn_indices_, host_states)
  /\ ByTypePublished =>
       \A r \in ClusterHostType :
         SortedByRtt(dsn_indices_by_type_[r], host_states)

\* two hosts of equal roundtrip_time are published with the greater index
\* first, in the alive list and in a bucket
C14_Witness ==
  /\ BothPublished
  /\ Len(alive_dsn_indices_) = 2
  /\ host_states[alive_dsn_indices_[1]].roundtrip_time
       = host_states[alive_dsn_indices_[2]].roundtrip_time
  /\ alive_dsn_indices_[1] > alive_dsn_indices_[2]
  /\ \E r \in ClusterHostType : dsn_indices_by_type_[r] = alive_dsn_indices_

IsMasterIndex(i) == host_states[i].role = kMaster
IsSyncSlaveIndex(i) == host_states[i].role = kSyncSlave
IsAnySlaveIndex(i) == host_states[i].role \in {kSlave, kSyncSlave}

\* C15: each bucket of the published by-type map is the published alive
\* list of the same cycle with the other hosts left out: the Master bucket
\* keeps the hosts of role kMaster, the SyncSlave bucket those of role
\* kSyncSlave, the Slave bucket those of role kSlave or kSyncSlave, all in
\* the order of the alive list.
C15_BucketsAreSubsequencesOfAlive ==
  BothPublished =>
    /\ dsn_indices_by_type_[kMaster] = SelectSeq(alive_dsn_indices_, IsMasterIndex)
    /\ dsn_indices_by_type_[kSyncSlave]
         = SelectSeq(alive_dsn_indices_, IsSyncSlaveIndex)
    /\ dsn_indices_by_type_[kSlave]
         = SelectSeq(alive_dsn_indices_, IsAnySlaveIndex)
    /\ dsn_indices_by_type_[kNone] = <<>>

\* the Slave bucket holds a sync slave of smaller roundtrip_time before a
\* slave that is not one
C15_Witness ==
  /\ BothPublished
  /\ Len(dsn_indices_by_type_[kSlave]) = 2
  /\ host_states[dsn_indices_by_type_[kSlave][1]].role = kSyncSlave
  /\ host_states[dsn_indices_by_type_[kSlave][2]].role = kSlave
  /\ host_states[dsn_indices_by_type_[kSlave][1]].roundtrip_time
       < host_states[dsn_indices_by_type_[kSlave][2]].roundtrip_time

\* RunDiscovery is past its join loop
AfterJoins ==
  pc \in {"promote", "sort", "build", "assign_by_type", "assign_alive",
          "published"}

\* a probe task of the current cycle exists
ProbeStarted == \E i \in Hosts : tasks[i] # "none"

\* C16: when the first join is reached every probe task of the cycle has
\* been spawned; promotion, sorting and publication run only when every
\* probe task has finished; and while a probe task of a cycle exists, both
\* rcu variables hold what the cycle just before it published.
C16_CyclesInOrder ==
  /\ pc = "join" => \A i \in Hosts : tasks[i] # "none"
  /\ AfterJoins => \A i \in Hosts : tasks[i] \in {"released", "failed"}
  /\ (ProbeStarted /\ ~AfterJoins) =>
       snapshot_age = [by_type |-> 1, alive |-> 1]

\* the probe task of host i is running RunCheck
ProbeRunning(i) == tasks[i] \in {"spawned", "check", "execute"}

\* C17: a step that changes the state of host j is either a step of the
\* probe task of j, which changes no other host state and no other task,
\* or the promotion of RunDiscovery, taken when no probe task is running.
C17_EachSlotHasOneWriter ==
  [][ \A j \in Hosts :
        host_states'[j] # host_states[j] =>
          \/ /\ ProbeRunning(j)
             /\ tasks'[j] # tasks[j]
             /\ \A i \in Hosts \ {j} :
                  host_states'[i] = host_states[i] /\ tasks'[i] = tasks[i]
          \/ /\ pc = "promote"
             /\ \A i \in Hosts : ~ProbeRunning(i)
    ]_vars

\* two probes run at the same time, each having written its own slot
C17_Witness ==
  /\ tasks[0] = "execute"
  /\ tasks[1] = "check"
  /\ host_states[0].role = kMaster
  /\ host_states[1].connection
  /\ host_states[1].role = kNone

\* C18 (as stated): after a completed probe of host i its
\* detected_sync_slaves is non-empty only if the probe answered read-write.
C18_NamesOnlyOnMasters ==
  \A i \in Hosts :
    (tasks[i] = "released" /\ host_states[i].detected_sync_slaves # <<>>)
      => ro[i] = "rw"

\* C18 (amended): detected_sync_slaves of host i changes only when a probe
\* of i that answered read-write stores the parsed names, or when a probe of
\* i fails and its guard clears them; a probe that answers read-only leaves
\* the names as they were.
C18_NamesChangeOnlyOnMasterOrFailure ==
  [][ \A i \in Hosts :
        host_states'[i].detected_sync_slaves
            # host_states[i].detected_sync_slaves =>
          \/ tasks[i] = "execute" /\ tasks'[i] = "released"
          \/ /\ tasks'[i] \in {"failed", "threw"}
             /\ host_states'[i].detected_sync_slaves = <<>>
    ]_vars

\* a host that stored names as master of an earlier cycle has answered
\* read-only over the connection it kept, and still holds the names
C18_Witness ==
  \E i \in Hosts :
    /\ periodic
    /\ tasks[i] = "released"
    /\ ro[i] = "ro"
    /\ host_states[i].connection
    /\ host_states[i].detected_sync_slaves # <<>>

\* C19: Connect returns a connection to the probe of host i only when the
\* host state held none; a probe that succeeds ends with the connection
\* held; and a held connection stays until a probe of the host fails, so
\* the probe of the next cycle finds it and goes to CheckReadOnly without
\* connecting.
C19_ConnectOnlyWithoutConnection ==
  [][ \A i \in Hosts :
        /\ (tasks[i] = "spawned" /\ tasks'[i] = "check") =>
             ~host_states[i].connection /\ host_states'[i].connection
        /\ tasks'[i] = "released" => host_states'[i].connection
        /\ (host_states[i].connection /\ tasks'[i] \notin {"failed", "threw"})
             => host_states'[i].connection
    ]_vars

\* the probe of a periodic cycle starts on a host that holds the connection
\* and the role of the cycle before
C19_Witness ==
  \E i \in Hosts :
    /\ periodic
    /\ pc = "join"
    /\ tasks[i] = "spawned"
    /\ host_states[i].connection
    /\ host_states[i].role # kNone

\* C20: in every state the published by-type map is of the same cycle as
\* the published alive list or of the cycle just after it.
C20_ByTypeAtMostOneCycleAhead ==
  snapshot_age.alive - snapshot_age.by_type \in {0, 1}

====
